---- MODULE Spec2Model ----
(***************************************************************************)
(* Model of the analysis orchestration pipeline of the competitive         *)
(* analysis system: CompetitiveAnalysisCrew.run_daily_analysis             *)
(* (src/src/crew/crew.py), the four agents it drives (src/src/agents),     *)
(* the Result Store client (src/src/database/supabase_client.py), the      *)
(* record models (src/src/database/models.py) and the Notifier calls.      *)
(*                                                                         *)
(* Scores are integers in hundredths (0.85 is 85).  Every row of the       *)
(* store carries a ghost field "run" naming the execution that inserted    *)
(* it; no operator of the model reads it, only the properties do.  The     *)
(* variable heard is a history of the same kind: the shapes and the items  *)
(* the completion service answered, kept in the environments where one     *)
(* stage is studied item by item.                                          *)
(*                                                                         *)
(* The completion service, the search service, the store and the SMTP      *)
(* server are the environment: their answers are drawn with \E from the    *)
(* input families below.  The coroutines of the three fan-out stages       *)
(* never suspend on real I/O (every client call is synchronous), so a      *)
(* stage is one atomic action; the order of the three is left open.        *)
(***************************************************************************)
EXTENDS Naturals, Integers, Sequences, FiniteSets, TLC

VARIABLES
    scenario,            \* environment the executions run in
    active,              \* executions of run_daily_analysis that exist
    runpc,               \* position of each execution
    results,             \* the value each stage returned to the execution
    histInput,           \* rows the Trend stage read (kept up to the barrier)
    synInput,            \* rows the Synthesis stage read (kept until it returns)
    strategic_analysis,  \* output of _synthesize_intelligence (same lifetime)
    report,              \* analysis_results / error_results of the execution
    alerts,              \* critical_alerts of _send_daily_notifications
    heard,               \* what the completion service answered to each stage
    hung,                \* the stage whose outbound call has not returned
    store,               \* Result Store, one sequence of rows per table
    outbox,              \* calls received by the Notifier, in order
    weekly,              \* what run_weekly_summary returned
    quick,               \* what run_quick_analysis returned
    exit_code            \* exit code of the `daily` process of each execution

vars == <<scenario, active, runpc, results, histInput, synInput,
          strategic_analysis, report, alerts, heard, hung, store, outbox,
          weekly, quick, exit_code>>

---------------------------------------------------------------------------
(* Bounds of the model *)

MaxFindings == 3
MaxUpdates == 1
MaxTrends == 1
MaxPair == 2
MaxOpps == 6
MaxRejects == 1

RunIds == {1, 2}

---------------------------------------------------------------------------
(* Program constants *)

Priority == {"low", "medium", "high", "critical"}

Category == {"ai_research", "product_launch", "funding", "acquisition",
             "partnership", "regulation", "technology", "market_trend"}

ScoreMin == 0
ScoreMax == 100

TopOpportunities == 5
AlertScore == 90
TrendMomentumFloor == 40
FindingsLimit == 30
UpdatesLimit == 20
TrendsLimit == 15
OpportunitiesLimit == 10
HistFindingsLimit == 100
HistOpportunitiesLimit == 50
SummaryLimit == 1000
SummaryFloor == 70
BriefingTop == 5
BriefingUpdates == 10
PortfolioLimit == 50
ConvergenceLimit == 20
WeeklyDays == 7

Competitors == <<"OpenAI", " ", "Anthropic">>

Today == 1

FanOut == {"market", "competitor", "trend"}
Stages == FanOut \cup {"synthesis"}

AgentName == [market |-> "market_intelligence",
              competitor |-> "competitor_intelligence",
              trend |-> "trend_analysis",
              synthesis |-> "strategic_synthesis"]

Pending == [agent |-> "pending"]
NoReport == [status |-> "running"]
NotRead == [read |-> FALSE]
NotCalled == [called |-> FALSE]
NotEvaluated == <<[source |-> "not evaluated"]>>
NoStage == "none"
Running == -1
ExitOk == 0
NoRun == 0
NotHeard == [searches |-> <<>>, shapes |-> <<>>, items |-> <<>>]

---------------------------------------------------------------------------
(* Generic helpers *)

Get(d, k, default) == IF k \in DOMAIN d THEN d[k] ELSE default

Take(s, n) == SubSeq(s, 1, IF Len(s) < n THEN Len(s) ELSE n)

RECURSIVE Reverse(_)
Reverse(s) == IF s = <<>> THEN <<>> ELSE Reverse(Tail(s)) \o <<Head(s)>>

RECURSIVE InsertDesc(_, _, _)
InsertDesc(sorted, row, key) ==
    IF sorted = <<>> THEN <<row>>
    ELSE IF Head(sorted)[key] >= row[key]
         THEN <<Head(sorted)>> \o InsertDesc(Tail(sorted), row, key)
         ELSE <<row>> \o sorted

RECURSIVE OrderDesc(_, _)
OrderDesc(s, key) ==
    IF s = <<>> THEN <<>>
    ELSE InsertDesc(OrderDesc(SubSeq(s, 1, Len(s) - 1), key), s[Len(s)], key)

SeqsUpTo(S, n) == UNION {[1..k -> S] : k \in 0..n}

---------------------------------------------------------------------------
(* Record models: src/src/database/models.py *)

ScoreUnchecked(x) == x = x

ScoreInRange(x) == x >= ScoreMin /\ x <= ScoreMax

MarketFindingValid(finding) ==
    /\ Get(finding, "category", "market_trend") \in Category
    /\ ScoreInRange(Get(finding, "relevance_score", 0))

MarketFinding(r, finding) ==
    [run |-> r, date |-> Today,
     category |-> Get(finding, "category", "market_trend"),
     relevance_score |-> Get(finding, "relevance_score", 0)]

CompetitorUpdateValid(update) ==
    /\ Get(update, "update_type", "market_trend") \in Category
    /\ Get(update, "impact_level", "medium") \in Priority

CompetitorUpdate(r, name, update) ==
    [run |-> r, company_name |-> name, detected_date |-> Today,
     impact_level |-> Get(update, "impact_level", "medium")]

TrendValid(trend) ==
    /\ Get(trend, "category", "market_trend") \in Category
    /\ ScoreInRange(Get(trend, "momentum_score", 0))

Trend(r, trend) ==
    [run |-> r, first_detected |-> Today,
     momentum_score |-> Get(trend, "momentum_score", 0)]

OpportunityValid(opportunity) ==
    /\ ScoreInRange(Get(opportunity, "score", 0))
    /\ Get(opportunity, "priority", "medium") \in Priority

Opportunity(r, opportunity) ==
    [run |-> r, title |-> Get(opportunity, "title", ""),
     score |-> Get(opportunity, "score", 0),
     priority |-> Get(opportunity, "priority", "medium")]

\* A Dict[str, Any] field takes a JSON object; a JSON array is refused,
\* except that an empty array is coerced to {} by the older validator.
DictFieldAccepts(value) ==
    CASE value = "object" -> {TRUE}
      [] value = "empty_list" -> {TRUE, FALSE}
      [] OTHER -> {FALSE}

AnalysisRun(r, results_r, report_r) ==
    [run |-> r, run_date |-> Today,
     findings_count |-> report_r.summary.findings_count,
     opportunities_identified |-> report_r.summary.opportunities_count,
     key_insights |-> Get(results_r.synthesis, "strategic_insights", "[]"),
     status |-> report_r.status]

---------------------------------------------------------------------------
(* Result Store client: src/src/database/supabase_client.py *)

insert_row_retrying(row, rejected) == <<row>>

\* insert_*: the stored row, or None (here: nothing) when the store refuses.
insert_row(row, rejected) == IF rejected THEN <<>> ELSE <<row>>

RECURSIVE StoreEachAborting(_, _, _)
StoreEachAborting(models, rejects, i) ==
    IF i > Len(models) \/ ~models[i].valid THEN <<>>
    ELSE insert_row(models[i].row, i \in rejects)
             \o StoreEachAborting(models, rejects, i + 1)

\* The per-item loop of a stage: an item that fails validation raises inside
\* the loop's own try and is skipped; a valid one is handed to the store once.
RECURSIVE StoreEach(_, _, _)
StoreEach(models, rejects, i) ==
    IF i > Len(models) THEN <<>>
    ELSE (IF models[i].valid
          THEN insert_row(models[i].row, i \in rejects)
          ELSE <<>>) \o StoreEach(models, rejects, i + 1)

\* Python's None, written as a one-element list so that it compares with
\* the row lists.
None == <<[none |-> TRUE]>>

get_market_findings_unguarded(st, limit, readOk) ==
    IF readOk THEN Take(Reverse(st.market_findings), limit) ELSE None

get_market_findings(st, limit, readOk) ==
    IF readOk THEN Take(Reverse(st.market_findings), limit) ELSE <<>>

get_competitor_updates(st, limit, readOk) ==
    IF readOk THEN Take(Reverse(st.competitor_updates), limit) ELSE <<>>

get_trends(st, min_momentum, limit, readOk) ==
    IF readOk
    THEN Take(OrderDesc(SelectSeq(st.trends,
                  LAMBDA t : t.momentum_score >= min_momentum),
              "momentum_score"), limit)
    ELSE <<>>

get_opportunities(st, limit, readOk) ==
    IF readOk THEN Take(OrderDesc(st.opportunities, "score"), limit) ELSE <<>>

---------------------------------------------------------------------------
(* Input families: what the environment may answer *)

RejectSets(n) == {R \in SUBSET (1..n) : Cardinality(R) <= MaxRejects}

FindingItems ==
    {[category |-> "funding", relevance_score |-> 85],
     [category |-> "funding", relevance_score |-> 140],
     [category |-> "quantum", relevance_score |-> 85]}

UpdateItems ==
    {[impact_level |-> l] : l \in {"medium", "high", "critical", "severe"}}

TrendItems == {[momentum_score |-> m] : m \in {30, 80, 150}}

OppKinds ==
    {[score |-> 95, priority |-> "high"],
     [score |-> 90, priority |-> "high"],
     [score |-> 95, priority |-> "medium"],
     [score |-> 140, priority |-> "high"]}

OppFiller == [score |-> 90, priority |-> "high"]

OppTitles == <<"opp-1", "opp-2", "opp-3", "opp-4",
               "opp-5", "opp-6", "opp-7", "opp-8">>

Titled(kinds) == [i \in DOMAIN kinds |->
                    [title |-> OppTitles[i], score |-> kinds[i].score,
                     priority |-> kinds[i].priority]]

\* Opportunity lists: every list of up to MaxPair items, and the lists of
\* MaxOpps items that hold one high-value item among fillers, at any place
\* (place 0: fillers only).
OppLists ==
    {Titled(k) : k \in SeqsUpTo(OppKinds, MaxPair)}
    \cup {Titled([i \in 1..MaxOpps |->
                    IF i = p THEN [score |-> 95, priority |-> "high"]
                    ELSE OppFiller]) : p \in 0..MaxOpps}

Failure(shape) == [shape |-> shape, items |-> <<>>]

\* The environments: "any" leaves every service free; "nominal" has every
\* service answer well-formed; the name of a stage leaves the services of
\* that stage free and has the others answer as in "nominal".
Free(stage) == scenario \in {"any", stage}

MarketResponses ==
    IF ~Free("market")
    THEN {[shape |-> "object",
           items |-> <<[category |-> "funding", relevance_score |-> 85]>>]}
    ELSE {Failure("throws"), Failure("array")}
         \cup {[shape |-> "object", items |-> f] :
                 f \in SeqsUpTo(FindingItems, MaxFindings)}

CompetitorResponses ==
    IF ~Free("competitor")
    THEN {[shape |-> "object", items |-> <<[impact_level |-> "critical"]>>]}
    ELSE {Failure("throws"), Failure("array")}
         \cup {[shape |-> "object", items |-> u] :
                 u \in SeqsUpTo(UpdateItems, MaxUpdates)}

LandscapeShapes ==
    IF ~Free("competitor") THEN {"object"}
    ELSE {"object", "array", "throws"}

TrendResponses ==
    IF ~Free("trend")
    THEN {[shape |-> "object", items |-> <<[momentum_score |-> 80]>>]}
    ELSE {Failure("throws"), Failure("array")}
         \cup {[shape |-> "object", items |-> t] :
                 t \in SeqsUpTo(TrendItems, MaxTrends)}

SynthesisResponses ==
    IF ~Free("synthesis")
    THEN {[shape |-> "object", recommendations |-> "object"]}
    ELSE {[shape |-> "throws", recommendations |-> "empty_list"],
          [shape |-> "array", recommendations |-> "empty_list"],
          [shape |-> "object", recommendations |-> "list"],
          [shape |-> "object", recommendations |-> "object"]}

OpportunityResponses ==
    IF ~Free("synthesis")
    THEN {Titled(<<[score |-> 95, priority |-> "high"]>>)}
    ELSE OppLists

RejectChoices(n) == IF scenario = "nominal" THEN {{}} ELSE RejectSets(n)

ReadOutcomes == IF scenario = "any" THEN {TRUE, FALSE} ELSE {TRUE}

SearchOutcomes(stage) == IF Free(stage) THEN {"ok", "error"} ELSE {"ok"}

\* The history of a stage: the outcome of its searches, the shape of each
\* answer of the completion service, in call order, and every item the stage's loop went through,
\* with the verdict of its model and of the store.
Hear(searches, shapes, items) ==
    IF scenario = "any" THEN NotHeard
    ELSE [searches |-> searches, shapes |-> shapes, items |-> items]

Offers(raw, models, rejects) ==
    [i \in DOMAIN models |->
        [item |-> raw[i], valid |-> models[i].valid,
         refused |-> models[i].valid /\ i \in rejects,
         row |-> models[i].row]]

---------------------------------------------------------------------------
(* The fan-out stages: src/src/agents *)

ErrorText(shape) ==
    CASE shape = "array" -> "'list' object has no attribute 'get'"
      [] shape = "raised" -> "search failed"
      [] OTHER -> "completion failed"

\* The shapes on which a stage leaves through its own except branch.
Raising == {"array", "raised"}

serper_run_raising(outcome) ==
    IF outcome = "ok" THEN [raised |-> FALSE, text |-> "results"]
    ELSE [raised |-> TRUE, text |-> "Search error"]

\* SerperSearchTool._run: a failed request is caught there and answered
\* with the error as text.
serper_run(outcome) ==
    [raised |-> FALSE,
     text |-> IF outcome = "ok" THEN "results" ELSE "Search error"]

\* The searches of a stage come before its completion call, inside the
\* stage's try: the completion is asked unless a search raised.
Searched(search, resp) ==
    IF search.raised THEN [shape |-> "raised", items |-> <<>>] ELSE resp

\* The except branch of a stage: error set, its counter zero, nothing else.
StageError(stage, counter, msg) ==
    [agent |-> AgentName[stage], error |-> msg] @@ (counter :> 0)

SettleCancelling(res, stage, out) ==
    [s \in DOMAIN res |->
        IF s = stage THEN out
        ELSE IF "error" \in DOMAIN out /\ s \in FanOut /\ res[s] = Pending
             THEN [agent |-> "cancelled"]
             ELSE res[s]]

\* asyncio.gather: the value a stage returns fills its own slot only.
Settle(res, stage, out) == [res EXCEPT ![stage] = out]

AnySettled(res) == \E s \in FanOut : res[s] # Pending

AllSettled(res) == \A s \in FanOut : res[s] # Pending

strip(name) ==
    CASE name = " " -> ""
      [] name = " Anthropic" -> "Anthropic"
      [] OTHER -> name

identify_critical_threats(updates) ==
    LET hits == SelectSeq(updates,
                    LAMBDA u : u.impact_level \in {"high", "critical"})
    IN [i \in DOMAIN hits |->
           [company |-> hits[i].company_name, impact |-> hits[i].impact_level]]

MarketModels(r, items) ==
    [i \in DOMAIN items |->
        [valid |-> MarketFindingValid(items[i]),
         row |-> MarketFinding(r, items[i])]]

MarketResult(resp, stored) ==
    IF resp.shape = "object"
    THEN [agent |-> AgentName.market,
          findings_count |-> Len(stored),
          findings |-> stored]
    ELSE StageError("market", "findings_count", ErrorText(resp.shape))

gather_market_intelligence(r) ==
    /\ r \in active
    /\ runpc[r] = "gather"
    /\ results[r].market = Pending
    /\ hung[r] = NoStage
    /\ \E outcome \in SearchOutcomes("market"), answer \in MarketResponses :
       \E rejects \in RejectChoices(Len(answer.items)) :
          LET resp == Searched(serper_run(outcome), answer)
              models == MarketModels(r, resp.items)
              stored == StoreEach(models, rejects, 1)
          IN /\ store' = [store EXCEPT !.market_findings = @ \o stored]
             /\ results' = [results EXCEPT
                    ![r] = Settle(@, "market", MarketResult(resp, stored))]
             /\ heard' = [heard EXCEPT ![r].market =
                    Hear(<<outcome>>, <<resp.shape>>,
                         Offers(resp.items, models, rejects))]
    /\ UNCHANGED <<weekly, quick, exit_code,
                   scenario, active, hung, runpc, histInput, synInput,
                   strategic_analysis, report, alerts, outbox>>

UpdateModels(r, name, items) ==
    [i \in DOMAIN items |->
        [valid |-> CompetitorUpdateValid(items[i]),
         row |-> CompetitorUpdate(r, name, items[i])]]

RealCompetitors == {i \in DOMAIN Competitors : strip(Competitors[i]) # ""}

CompetitorOracles ==
    [RealCompetitors ->
        UNION {{[shape |-> resp.shape, items |-> resp.items, rejects |-> R] :
                    R \in RejectChoices(Len(resp.items))} :
               resp \in CompetitorResponses}]

RECURSIVE MonitorFromAborting(_, _, _)
MonitorFromAborting(i, oracle, r) ==
    IF i > Len(Competitors)
    THEN [raised |-> FALSE, all_updates |-> <<>>, analysed |-> {},
          shapes |-> <<>>, offered |-> <<>>]
    ELSE LET name == strip(Competitors[i]) IN
         IF name = "" THEN MonitorFromAborting(i + 1, oracle, r)
         ELSE IF oracle[i].shape # "object"
         THEN [raised |-> TRUE, all_updates |-> <<>>, analysed |-> {name},
               shapes |-> <<oracle[i].shape>>, offered |-> <<>>]
         ELSE LET models == UpdateModels(r, name, oracle[i].items)
                  stored == StoreEach(models, oracle[i].rejects, 1)
                  rest == MonitorFromAborting(i + 1, oracle, r)
              IN [raised |-> rest.raised,
                  all_updates |-> stored \o rest.all_updates,
                  analysed |-> {name} \cup rest.analysed,
                  shapes |-> <<oracle[i].shape>> \o rest.shapes,
                  offered |-> Offers(oracle[i].items, models, oracle[i].rejects)
                                  \o rest.offered]

\* The loop over the competitors.  An analysis that is not a JSON object
\* raises at analysis.get and leaves the loop through the stage's except
\* branch; what earlier competitors stored stays stored.
RECURSIVE MonitorFrom(_, _, _)
MonitorFrom(i, oracle, r) ==
    IF i > Len(Competitors)
    THEN [raised |-> FALSE, all_updates |-> <<>>, analysed |-> {},
          shapes |-> <<>>, offered |-> <<>>]
    ELSE LET name == strip(Competitors[i]) IN
         IF name = "" THEN MonitorFrom(i + 1, oracle, r)
         ELSE IF oracle[i].shape \in Raising
         THEN [raised |-> TRUE, all_updates |-> <<>>, analysed |-> {name},
               shapes |-> <<oracle[i].shape>>, offered |-> <<>>]
         ELSE LET models == UpdateModels(r, name, oracle[i].items)
                  stored == StoreEach(models, oracle[i].rejects, 1)
                  rest == MonitorFrom(i + 1, oracle, r)
              IN [raised |-> rest.raised,
                  all_updates |-> stored \o rest.all_updates,
                  analysed |-> {name} \cup rest.analysed,
                  shapes |-> <<oracle[i].shape>> \o rest.shapes,
                  offered |-> Offers(oracle[i].items, models, oracle[i].rejects)
                                  \o rest.offered]

CompetitorResult(loop, landscape) ==
    IF loop.raised \/ landscape = "array"
    THEN StageError("competitor", "updates_found", ErrorText("array"))
    ELSE [agent |-> AgentName.competitor,
          competitors_monitored |-> Len(Competitors),
          updates_found |-> Len(loop.all_updates),
          competitor_analyses |-> loop.analysed,
          critical_threats |-> identify_critical_threats(loop.all_updates)]

monitor_competitors(r) ==
    /\ r \in active
    /\ runpc[r] = "gather"
    /\ results[r].competitor = Pending
    /\ hung[r] = NoStage
    /\ \E outcome \in SearchOutcomes("competitor") :
       \E answers \in CompetitorOracles, landscape \in LandscapeShapes :
          LET oracle == [i \in DOMAIN answers |->
                            Searched(serper_run(outcome), answers[i])]
              loop == MonitorFrom(1, oracle, r)
          IN /\ store' = [store EXCEPT
                    !.competitor_updates = @ \o loop.all_updates]
             /\ results' = [results EXCEPT
                    ![r] = Settle(@, "competitor",
                                  CompetitorResult(loop, landscape))]
             /\ heard' = [heard EXCEPT ![r].competitor =
                    Hear(<<outcome>>,
                         loop.shapes \o (IF loop.raised THEN <<>>
                                         ELSE <<landscape>>),
                         loop.offered)]
    /\ UNCHANGED <<weekly, quick, exit_code,
                   scenario, active, hung, runpc, histInput, synInput,
                   strategic_analysis, report, alerts, outbox>>

TrendModels(r, items) ==
    [i \in DOMAIN items |->
        [valid |-> TrendValid(items[i]), row |-> Trend(r, items[i])]]

\* _analyze_trend_patterns catches a failed completion itself and answers
\* with an empty trend list; only a non-object answer reaches the stage's
\* except branch.
TrendResult(resp, stored) ==
    IF resp.shape \in Raising
    THEN StageError("trend", "trends_identified", ErrorText("array"))
    ELSE [agent |-> AgentName.trend,
          trends_identified |-> Len(stored),
          key_trends |-> stored]

analyze_market_trends(r) ==
    /\ r \in active
    /\ runpc[r] = "gather"
    /\ results[r].trend = Pending
    /\ hung[r] = NoStage
    /\ \E readOk \in ReadOutcomes :
          histInput' = [histInput EXCEPT ![r] =
              [read |-> TRUE,
               findings |-> get_market_findings(store, HistFindingsLimit, readOk),
               opportunities |->
                   get_opportunities(store, HistOpportunitiesLimit, readOk)]]
    /\ \E outcome \in SearchOutcomes("trend"), answer \in TrendResponses :
       \E rejects \in RejectChoices(Len(answer.items)) :
          LET resp == Searched(serper_run(outcome), answer)
              models == TrendModels(r, resp.items)
              stored == StoreEach(models, rejects, 1)
          IN /\ store' = [store EXCEPT !.trends = @ \o stored]
             /\ results' = [results EXCEPT
                    ![r] = Settle(@, "trend", TrendResult(resp, stored))]
             /\ heard' = [heard EXCEPT ![r].trend =
                    Hear(<<outcome>>, <<resp.shape>>,
                         Offers(resp.items, models, rejects))]
    /\ UNCHANGED <<weekly, quick, exit_code,
                   scenario, active, hung, runpc, synInput,
                   strategic_analysis, report, alerts, outbox>>

---------------------------------------------------------------------------
(* The Synthesis stage: src/src/agents/strategic_synthesis.py *)

SynthesizeIntelligenceDeferred(resp) ==
    [called |-> FALSE,
     isdict |-> resp.shape # "array",
     strategic_insights |-> IF resp.shape = "object" THEN "insights" ELSE "[]",
     recommendations |-> resp.recommendations]

\* _synthesize_intelligence: a failed completion is caught there and
\* answered with a default object; a JSON array is returned as it is.
SynthesizeIntelligence(resp) ==
    [called |-> TRUE,
     isdict |-> resp.shape # "array",
     strategic_insights |-> IF resp.shape = "object" THEN "insights" ELSE "[]",
     recommendations |-> resp.recommendations]

generate_strategic_analysis(r) ==
    /\ r \in active
    /\ runpc[r] = "gather"
    /\ AllSettled(results[r])
    /\ \E readOk \in ReadOutcomes :
          synInput' = [synInput EXCEPT ![r] =
              [read |-> TRUE,
               recent_findings |->
                   get_market_findings(store, FindingsLimit, readOk),
               competitor_updates |->
                   get_competitor_updates(store, UpdatesLimit, readOk),
               current_trends |->
                   get_trends(store, TrendMomentumFloor, TrendsLimit, readOk),
               existing_opportunities |->
                   get_opportunities(store, OpportunitiesLimit, readOk)]]
    /\ \E resp \in SynthesisResponses :
          /\ strategic_analysis' =
                [strategic_analysis EXCEPT ![r] = SynthesizeIntelligence(resp)]
          /\ heard' = [heard EXCEPT ![r].synthesis =
                         Hear(<<>>, <<resp.shape>>, <<>>)]
    /\ histInput' = [histInput EXCEPT ![r] = NotRead]
    /\ runpc' = [runpc EXCEPT ![r] = "identify"]
    /\ UNCHANGED <<weekly, quick, exit_code,
                   scenario, active, hung, results, report, alerts, store,
                   outbox>>

OpportunityModels(r, items) ==
    [i \in DOMAIN items |->
        [valid |-> OpportunityValid(items[i]),
         row |-> Opportunity(r, items[i])]]

\* The return of generate_strategic_analysis.  strategic_analysis.get
\* raises on a JSON array, after the opportunities have been stored.
SynthesisResult(analysis, stored) ==
    IF analysis.isdict
    THEN [agent |-> AgentName.synthesis,
          strategic_insights |-> analysis.strategic_insights,
          new_opportunities |-> Len(stored),
          top_opportunities |-> Take(stored, TopOpportunities),
          strategic_recommendations |-> analysis.recommendations]
    ELSE StageError("synthesis", "new_opportunities", ErrorText("array"))

identify_opportunities(r) ==
    /\ r \in active
    /\ runpc[r] = "identify"
    /\ \E new_opportunities \in OpportunityResponses :
       \E rejects \in RejectChoices(Len(new_opportunities)) :
          LET models == OpportunityModels(r, new_opportunities)
              stored == StoreEach(models, rejects, 1)
          IN /\ store' = [store EXCEPT !.opportunities = @ \o stored]
             /\ results' = [results EXCEPT ![r].synthesis =
                    SynthesisResult(strategic_analysis[r], stored)]
             /\ heard' = [heard EXCEPT ![r].synthesis =
                    Hear(<<>>, @.shapes,
                         Offers(new_opportunities, models, rejects))]
    /\ synInput' = [synInput EXCEPT ![r] = NotRead]
    /\ strategic_analysis' = [strategic_analysis EXCEPT ![r] = NotCalled]
    /\ runpc' = [runpc EXCEPT ![r] = "store"]
    /\ UNCHANGED <<weekly, quick, exit_code,
                   scenario, active, hung, histInput, report, alerts, outbox>>

---------------------------------------------------------------------------
(* The Orchestrator: src/src/crew/crew.py *)

StartRun(r) ==
    /\ r \in active
    /\ runpc[r] = "idle"
    /\ runpc' = [runpc EXCEPT ![r] = "gather"]
    /\ UNCHANGED <<weekly, quick, exit_code,
                   scenario, active, hung, heard, results, histInput, synInput,
                   strategic_analysis, report, alerts, store, outbox>>

CompileResultsStrict(res) ==
    [analysis_date |-> Today,
     status |-> IF \E s \in Stages : "error" \in DOMAIN res[s]
                THEN "error" ELSE "completed",
     summary |->
        [findings_count |-> Get(res.market, "findings_count", 0),
         competitor_updates |->
             Cardinality(Get(res.competitor, "competitor_analyses", {})),
         trends_identified |-> Get(res.trend, "trends_identified", 0),
         opportunities_count |-> Get(res.synthesis, "new_opportunities", 0)]]

CompileResults(res) ==
    [analysis_date |-> Today,
     status |-> "completed",
     summary |->
        [findings_count |-> Get(res.market, "findings_count", 0),
         competitor_updates |->
             Cardinality(Get(res.competitor, "competitor_analyses", {})),
         trends_identified |-> Get(res.trend, "trends_identified", 0),
         opportunities_count |-> Get(res.synthesis, "new_opportunities", 0)]]

\* Lines 120-138: the results are compiled and _store_analysis_run builds
\* the AnalysisRun and hands it to the store; a validation error or a
\* refused insert is printed and swallowed.
store_analysis_run(r) ==
    /\ r \in active
    /\ runpc[r] = "store"
    /\ LET compiled == CompileResults(results[r])
           recs == Get(results[r].synthesis,
                       "strategic_recommendations", "empty_list")
       IN /\ report' = [report EXCEPT ![r] = compiled]
          /\ \E accepted \in DictFieldAccepts(recs), rejected \in BOOLEAN :
                store' = [store EXCEPT !.analysis_runs = @ \o
                    (IF accepted
                     THEN insert_row(AnalysisRun(r, results[r], compiled),
                                     rejected)
                     ELSE <<>>)]
    /\ runpc' = [runpc EXCEPT ![r] = "notify"]
    /\ UNCHANGED <<weekly, quick, exit_code,
                   scenario, active, hung, heard, results, histInput, synInput,
                   strategic_analysis, alerts, outbox>>

ThreatAlert(threat) ==
    [title |-> <<"Critical Competitive Threat", threat.company>>,
     impact_level |-> threat.impact,
     source |-> "Competitive Intelligence"]

OpportunityAlert(opp) ==
    [title |-> <<"High-Value Opportunity", opp.title>>,
     impact_level |-> "high",
     source |-> "Strategic Analysis"]

IsCriticalThreat(threat) == threat.impact \in {"high", "critical"}

IsHighValue(opp) == opp.score > AlertScore /\ opp.priority = "high"

identify_critical_alerts_exclusive(res) ==
    LET threats == SelectSeq(Get(res.competitor, "critical_threats", <<>>),
                             IsCriticalThreat)
        opps == SelectSeq(Get(res.synthesis, "top_opportunities", <<>>),
                          IsHighValue)
    IN IF threats # <<>>
       THEN [i \in DOMAIN threats |-> ThreatAlert(threats[i])]
       ELSE [i \in DOMAIN opps |-> OpportunityAlert(opps[i])]

identify_critical_alerts(res) ==
    LET threats == SelectSeq(Get(res.competitor, "critical_threats", <<>>),
                             IsCriticalThreat)
        opps == SelectSeq(Get(res.synthesis, "top_opportunities", <<>>),
                          IsHighValue)
    IN [i \in DOMAIN threats |-> ThreatAlert(threats[i])]
       \o [i \in DOMAIN opps |-> OpportunityAlert(opps[i])]

\* The sends of one execution that fail: none, any single one, or all of
\* them (mail disabled or no recipient).  Every send_* catches its own
\* failure and returns False.
DeliveryOutcomes(n) ==
    {[i \in 1..n |-> i \notin failing] :
        failing \in {{}} \cup {{i} : i \in 1..n} \cup {1..n}}

AlertCallsUnordered(r, critical_alerts, delivered) ==
    Reverse([i \in DOMAIN critical_alerts |->
        [run |-> r, kind |-> "critical_alert",
         alert |-> critical_alerts[i], delivered |-> delivered[i]]])

\* Lines 196-198: one send_critical_alert per alert, in list order.
AlertCalls(r, critical_alerts, delivered) ==
    [i \in DOMAIN critical_alerts |->
        [run |-> r, kind |-> "critical_alert",
         alert |-> critical_alerts[i], delivered |-> delivered[i]]]

DailyReportUnalerted(r, report_r, critical_alerts, delivered) ==
    [run |-> r, kind |-> "daily_report",
     findings_count |-> report_r.summary.findings_count,
     opportunities_count |-> report_r.summary.opportunities_count,
     delivered |-> delivered]

DailyReport(r, report_r, critical_alerts, delivered) ==
    LET report_data ==
            [run |-> r, kind |-> "daily_report",
             findings_count |-> report_r.summary.findings_count,
             opportunities_count |-> report_r.summary.opportunities_count,
             delivered |-> delivered]
    IN IF critical_alerts # <<>>
       THEN report_data @@ ("critical_alerts" :> critical_alerts)
       ELSE report_data

send_daily_notifications_rollback(r) ==
    /\ r \in active
    /\ runpc[r] = "notify"
    /\ LET critical_alerts == identify_critical_alerts(results[r])
       IN /\ alerts' = [alerts EXCEPT ![r] = critical_alerts]
          /\ \E delivered \in DeliveryOutcomes(Len(critical_alerts) + 1) :
                /\ outbox' = outbox
                      \o AlertCalls(r, critical_alerts, delivered)
                      \o <<DailyReport(r, report[r], critical_alerts,
                                       delivered[Len(delivered)])>>
                /\ store' = IF \A i \in DOMAIN delivered : delivered[i]
                            THEN store
                            ELSE [store EXCEPT !.analysis_runs =
                                    SelectSeq(@, LAMBDA row : row.run # r)]
    /\ runpc' = [runpc EXCEPT ![r] = "done"]
    /\ UNCHANGED <<weekly, quick, exit_code,
                   scenario, active, hung, heard, results, histInput, synInput,
                   strategic_analysis, report>>

\* Lines 141-144: _send_daily_notifications, then the return.
send_daily_notifications(r) ==
    /\ r \in active
    /\ runpc[r] = "notify"
    /\ LET critical_alerts == identify_critical_alerts(results[r])
       IN /\ alerts' = [alerts EXCEPT ![r] = critical_alerts]
          /\ \E delivered \in DeliveryOutcomes(Len(critical_alerts) + 1) :
                outbox' = outbox
                    \o AlertCalls(r, critical_alerts, delivered)
                    \o <<DailyReport(r, report[r], critical_alerts,
                                     delivered[Len(delivered)])>>
    /\ runpc' = [runpc EXCEPT ![r] = "done"]
    /\ UNCHANGED <<weekly, quick, exit_code,
                   scenario, active, hung, heard, results, histInput, synInput,
                   strategic_analysis, report, store>>

ErrorResults == [analysis_date |-> Today, status |-> "error",
                 error |-> "exception"]

RaiseInTryAlerting(r) ==
    /\ r \in active
    /\ runpc[r] \in {"gather", "identify", "store", "notify"}
    /\ report' = [report EXCEPT ![r] = ErrorResults]
    /\ runpc' = [runpc EXCEPT ![r] = "done"]
    /\ outbox' = outbox \o
           <<[run |-> r, kind |-> "critical_alert",
              alert |-> [title |-> <<"Pipeline Failure", ErrorResults.error>>,
                         impact_level |-> "critical",
                         source |-> "Orchestrator"],
              delivered |-> TRUE]>>
    /\ UNCHANGED <<weekly, quick, exit_code,
                   scenario, active, hung, heard, results, histInput, synInput,
                   strategic_analysis, alerts, store>>

\* Lines 146-155: an exception raised by a statement of the try block.
RaiseInTry(r) ==
    /\ r \in active
    /\ runpc[r] \in {"gather", "identify", "store", "notify"}
    /\ report' = [report EXCEPT ![r] = ErrorResults]
    /\ runpc' = [runpc EXCEPT ![r] = "done"]
    /\ UNCHANGED <<weekly, quick, exit_code,
                   scenario, active, hung, heard, results, histInput, synInput,
                   strategic_analysis, alerts, store, outbox>>

\* A search or completion call of a fan-out stage that does not return:
\* requests.post and llm.invoke are synchronous and carry no timeout, so the
\* coroutine, and with it the event loop of the execution, stays in the call.
HangInCall(r, s) ==
    /\ r \in active
    /\ runpc[r] = "gather"
    /\ results[r][s] = Pending
    /\ hung[r] = NoStage
    /\ hung' = [hung EXCEPT ![r] = s]
    /\ UNCHANGED <<weekly, quick, exit_code,
                   scenario, active, runpc, results, histInput, synInput,
                   strategic_analysis, report, alerts, heard, store, outbox>>

---------------------------------------------------------------------------
(* The other entry points: src/src/crew/crew.py 244-291, src/src/crew/main.py *)

Answers == {"ok", "raised"}

Thrown == [error |-> "exception"]

\* get_analysis_summary: four reads and the counts taken from them.  Every
\* row of the model carries today's date, so the date window keeps them all;
\* stored momentum scores are never below ScoreMin, so that floor filters
\* nothing.
get_analysis_summary(st, days, readOk) ==
    LET findings == get_market_findings(st, SummaryLimit, readOk)
        opportunities == get_opportunities(st, SummaryLimit, readOk)
        trends == get_trends(st, ScoreMin, SummaryLimit, readOk)
        competitor_updates == get_competitor_updates(st, SummaryLimit, readOk)
    IN [period_days |-> days,
        market_findings |-> Len(findings),
        opportunities |-> Len(opportunities),
        trends |-> Len(trends),
        competitor_updates |-> Len(competitor_updates),
        high_value_opportunities |->
            Len(SelectSeq(opportunities, LAMBDA o : o.score > SummaryFloor)),
        high_momentum_trends |->
            Len(SelectSeq(trends,
                          LAMBDA t : t.momentum_score > SummaryFloor)),
        critical_competitor_updates |->
            Len(SelectSeq(competitor_updates,
                          LAMBDA u : u.impact_level \in {"high", "critical"}))]

generate_executive_briefing(st, readOk, answer) ==
    LET top_opportunities ==
            Take(SelectSeq(get_opportunities(st, SummaryLimit, readOk),
                           LAMBDA o : o.score >= SummaryFloor), BriefingTop)
        critical_trends == get_trends(st, SummaryFloor, BriefingTop, readOk)
        recent_threats == get_competitor_updates(st, BriefingUpdates, readOk)
    IN IF answer = "raised"
       THEN [briefing_type |-> "executive"] @@ Thrown
       ELSE [briefing_type |-> "executive",
             data_sources |->
                 [opportunities |-> Len(top_opportunities),
                  trends |-> Len(critical_trends),
                  competitive_updates |-> Len(recent_threats)]]

assess_opportunity_portfolio(st, readOk, answer) ==
    IF answer = "raised"
    THEN [analysis_type |-> "opportunity_portfolio"] @@ Thrown
    ELSE [analysis_type |-> "opportunity_portfolio",
          portfolio_size |->
              Len(get_opportunities(st, PortfolioLimit, readOk))]

WeeklySummary(summary_data, delivered) ==
    [run |-> NoRun, kind |-> "weekly_summary",
     summary |-> summary_data.summary, delivered |-> delivered]

SummaryData(st, readOk, briefing, portfolio) ==
    [period |-> "weekly",
     summary |-> get_analysis_summary(st, WeeklyDays, readOk),
     executive_briefing |-> generate_executive_briefing(st, readOk, briefing),
     portfolio_assessment |->
         assess_opportunity_portfolio(st, readOk, portfolio)]

run_weekly_summary_recorded ==
    /\ weekly = NotCalled
    /\ \E readOk \in BOOLEAN, briefing \in Answers, portfolio \in Answers,
          delivered \in BOOLEAN :
          LET summary_data == SummaryData(store, readOk, briefing, portfolio)
          IN /\ weekly' = summary_data
             /\ outbox' = Append(outbox,
                                 WeeklySummary(summary_data, delivered))
             /\ store' = [store EXCEPT !.analysis_runs =
                             Append(@, [run |-> NoRun, run_date |-> Today,
                                        status |-> "completed"])]
    /\ UNCHANGED <<quick, exit_code, scenario, active, hung, heard, runpc,
                   results, histInput, synInput, strategic_analysis, report,
                   alerts>>

\* crew.py 244-271: reads, two completions, one digest; the except branch
\* returns the error and sends nothing.
run_weekly_summary ==
    /\ weekly = NotCalled
    /\ \E readOk \in BOOLEAN, briefing \in Answers, portfolio \in Answers,
          delivered \in BOOLEAN, raised \in BOOLEAN :
          LET summary_data == SummaryData(store, readOk, briefing, portfolio)
          IN IF raised
             THEN weekly' = Thrown /\ outbox' = outbox
             ELSE /\ weekly' = summary_data
                  /\ outbox' = Append(outbox,
                                      WeeklySummary(summary_data, delivered))
    /\ UNCHANGED <<quick, exit_code, scenario, active, hung, heard, runpc,
                   results, histInput, synInput, strategic_analysis, report,
                   alerts, store>>

Topics == {"", "agents", "edge inference"}

\* market_intelligence.py 145-189: a search, whose failure is only a text in
\* the prompt, then one completion.
analyze_specific_topic(topic, search, answer) ==
    IF answer = "raised" \/ serper_run(search).raised
    THEN [topic |-> topic] @@ Thrown
    ELSE [topic |-> topic, analysis |-> serper_run(search).text]

\* trend_analysis.py 206-243: one read, one completion.
analyze_trend_convergence(st, readOk, answer) ==
    IF answer = "raised"
    THEN [analysis_type |-> "trend_convergence"] @@ Thrown
    ELSE [analysis_type |-> "trend_convergence",
          trends_read |-> Len(get_trends(st, ScoreMin, ConvergenceLimit,
                                         readOk))]

QuickResult(topic, market_analysis, trend_convergence) ==
    [topic |-> topic, market_analysis |-> market_analysis,
     trend_convergence |-> trend_convergence]

run_quick_analysis_announced ==
    /\ quick = NotCalled
    /\ \E topic \in Topics, search \in {"ok", "error"}, market \in Answers,
          convergence \in Answers, readOk \in BOOLEAN :
          /\ quick' = QuickResult(topic,
                          analyze_specific_topic(topic, search, market),
                          analyze_trend_convergence(store, readOk,
                                                    convergence))
          /\ outbox' = Append(outbox, [run |-> NoRun, kind |-> "quick",
                                       topic |-> topic, delivered |-> TRUE])
    /\ UNCHANGED <<weekly, exit_code, scenario, active, hung, heard, runpc,
                   results, histInput, synInput, strategic_analysis, report,
                   alerts, store>>

\* crew.py 273-291.
run_quick_analysis ==
    /\ quick = NotCalled
    /\ \E topic \in Topics, search \in {"ok", "error"}, market \in Answers,
          convergence \in Answers, readOk \in BOOLEAN, raised \in BOOLEAN :
          quick' = IF raised
                   THEN [topic |-> topic] @@ Thrown
                   ELSE QuickResult(topic,
                            analyze_specific_topic(topic, search, market),
                            analyze_trend_convergence(store, readOk,
                                                      convergence))
    /\ UNCHANGED <<weekly, exit_code, scenario, active, hung, heard, runpc,
                   results, histInput, synInput, strategic_analysis, report,
                   alerts, store, outbox>>

\* main.py 16-50 and 82-106: the `daily` command awaits the execution,
\* prints its status and returns; its own except branch prints and returns
\* as well, and main() returns after asyncio.run.  No path calls sys.exit
\* or lets an exception leave, so the interpreter ends with code 0.
main(r) ==
    /\ r \in active
    /\ runpc[r] = "done"
    /\ exit_code[r] = Running
    /\ exit_code' = [exit_code EXCEPT ![r] = ExitOk]
    /\ UNCHANGED <<weekly, quick, scenario, active, hung, heard, runpc,
                   results, histInput, synInput, strategic_analysis, report,
                   alerts, store, outbox>>

---------------------------------------------------------------------------
(* Specifications *)

EmptyStore == [market_findings |-> <<>>, competitor_updates |-> <<>>,
               trends |-> <<>>, opportunities |-> <<>>,
               analysis_runs |-> <<>>]

InitState ==
    /\ runpc = [r \in RunIds |-> "idle"]
    /\ results = [r \in RunIds |-> [s \in Stages |-> Pending]]
    /\ histInput = [r \in RunIds |-> NotRead]
    /\ synInput = [r \in RunIds |-> NotRead]
    /\ strategic_analysis = [r \in RunIds |-> NotCalled]
    /\ report = [r \in RunIds |-> NoReport]
    /\ alerts = [r \in RunIds |-> NotEvaluated]
    /\ heard = [r \in RunIds |-> [s \in Stages |-> NotHeard]]
    /\ hung = [r \in RunIds |-> NoStage]
    /\ store = EmptyStore
    /\ outbox = <<>>
    /\ weekly = NotCalled
    /\ quick = NotCalled
    /\ exit_code = [r \in RunIds |-> Running]

\* One execution, any environment.
Init == scenario = "any" /\ active = {1} /\ InitState

\* Two executions started for the same date (scheduler and dashboard),
\* every service answering well-formed.
InitConc == scenario = "nominal" /\ active = RunIds /\ InitState

\* One execution, one stage studied: its services are free, the others
\* answer well-formed.
InitFocus == scenario \in Stages /\ active = {1} /\ InitState

Next ==
    \/ \E r \in RunIds : StartRun(r)
    \/ \E r \in RunIds : gather_market_intelligence(r)
    \/ \E r \in RunIds : monitor_competitors(r)
    \/ \E r \in RunIds : analyze_market_trends(r)
    \/ \E r \in RunIds : generate_strategic_analysis(r)
    \/ \E r \in RunIds : identify_opportunities(r)
    \/ \E r \in RunIds : store_analysis_run(r)
    \/ \E r \in RunIds : send_daily_notifications(r)

NextFault == Next \/ \E r \in RunIds : RaiseInTry(r)

Spec == Init /\ [][Next]_vars

SpecConc == InitConc /\ [][Next]_vars

SpecFault == Init /\ [][NextFault]_vars

SpecFocus == InitFocus /\ [][Next]_vars

NextHang == Next \/ \E r \in RunIds : \E s \in FanOut : HangInCall(r, s)

\* The event loop runs every coroutine that is ready: each step of an
\* execution that stays enabled is eventually taken.  Nothing obliges a
\* call to hang.
Fairness ==
    \A r \in RunIds :
        /\ WF_vars(gather_market_intelligence(r))
        /\ WF_vars(monitor_competitors(r))
        /\ WF_vars(analyze_market_trends(r))
        /\ WF_vars(generate_strategic_analysis(r))
        /\ WF_vars(identify_opportunities(r))
        /\ WF_vars(store_analysis_run(r))
        /\ WF_vars(send_daily_notifications(r))

SpecHang == InitConc /\ [][NextHang]_vars /\ Fairness

\* One scheduled execution in a well-formed environment, next to the weekly
\* summary and an ad-hoc query, which may be asked for at any moment.
InitEntry == scenario = "nominal" /\ active = {1} /\ InitState

NextEntry ==
    \/ NextFault
    \/ run_weekly_summary
    \/ run_quick_analysis
    \/ \E r \in RunIds : main(r)

SpecEntry == InitEntry /\ [][NextEntry]_vars

---------------------------------------------------------------------------
(* Properties *)

Range(f) == {f[i] : i \in DOMAIN f}

RowsOf(table, r) == SelectSeq(store[table], LAMBDA row : row.run = r)

Failed(result) == "error" \in DOMAIN result

\* C1: when the Competitor stage returns through its except branch, the
\* execution still ends completed and its findings_count is the number of
\* findings the Market stage of that execution persisted.
C1_CompetitorFailureIsolated ==
    \A r \in RunIds :
        (runpc[r] = "done" /\ Failed(results[r].competitor)) =>
            /\ report[r].status = "completed"
            /\ report[r].summary.findings_count
                   = Len(RowsOf("market_findings", r))

C1_Witness ==
    \E r \in RunIds :
        /\ runpc[r] = "done"
        /\ Failed(results[r].competitor)
        /\ report[r].status = "completed"
        /\ report[r].summary.findings_count >= 1

\* C2: the Synthesis stage is started only when each of the Market,
\* Competitor and Trend stages has returned its result.
C2_SynthesisAfterBarrier ==
    \A r \in RunIds :
        (synInput[r].read \/ runpc[r] \notin {"idle", "gather"}) =>
            \A s \in FanOut : results[r][s] # Pending

C2_Witness ==
    \E r \in RunIds :
        /\ runpc[r] = "identify"
        /\ synInput[r].read
        /\ \E s \in FanOut : Failed(results[r][s])
        /\ \E s \in FanOut : ~Failed(results[r][s]) /\ results[r][s] # Pending

\* C3: a stage that fails never cancels or skips a sibling: a slot of the
\* barrier is filled only by the return of its own stage, the step that
\* fills it leaves the sibling slots as they are, and past the barrier every
\* slot holds the result its own stage returned.
C3_SlotFilledByOwnStage ==
    \A r \in RunIds : \A s \in FanOut :
        (results[r][s] = Pending /\ results'[r][s] # Pending) =>
            /\ results'[r][s].agent = AgentName[s]
            /\ \A t \in FanOut \ {s} : results'[r][t] = results[r][t]

C3_AllRanToResult ==
    \A r \in RunIds : \A s \in FanOut :
        /\ results[r][s].agent \in {"pending", AgentName[s]}
        /\ runpc[r] \notin {"idle", "gather"} =>
               results[r][s].agent = AgentName[s]

C3_NoSiblingCancelled == []C3_AllRanToResult /\ [][C3_SlotFilledByOwnStage]_vars

C3_Witness ==
    \E r \in RunIds :
        /\ runpc[r] = "identify"
        /\ Failed(results[r].competitor)
        /\ ~Failed(results[r].market) /\ results[r].market.findings_count >= 1
        /\ ~Failed(results[r].trend) /\ results[r].trend.trends_identified >= 1

\* C4: the Synthesis stage analyses only what the three results of its own
\* execution carry: every row handed to _synthesize_intelligence is a row
\* returned by the Market, Competitor or Trend stage of the same execution.
C4_SynthesisInputsFromResults ==
    \A r \in RunIds :
        synInput[r].read =>
            /\ Range(synInput[r].recent_findings)
                   \subseteq Range(Get(results[r].market, "findings", <<>>))
            /\ Range(synInput[r].current_trends)
                   \subseteq Range(Get(results[r].trend, "key_trends", <<>>))
            /\ \A u \in Range(synInput[r].competitor_updates) :
                   u.company_name
                       \in Get(results[r].competitor, "competitor_analyses", {})
            /\ synInput[r].existing_opportunities = <<>>

\* C5: two executions started for the same run_date leave at most one
\* AnalysisRun row for that date.
C5_OneRunRowPerDate ==
    Len(SelectSeq(store.analysis_runs, LAMBDA row : row.run_date = Today)) <= 1

\* C6: an execution that ends through the except branch of
\* run_daily_analysis has an AnalysisRun row with status error whose
\* key_insights is the exception message.
C6_ErrorRunRecorded ==
    \A r \in RunIds :
        (runpc[r] = "done" /\ report[r].status = "error") =>
            \E row \in Range(RowsOf("analysis_runs", r)) :
                row.status = "error" /\ row.key_insights = report[r].error

\* C7: every finished execution, whether it ends completed or error, has
\* persisted exactly one AnalysisRun row.
C7_ExactlyOneRunRow ==
    \A r \in RunIds :
        runpc[r] = "done" => Len(RowsOf("analysis_runs", r)) = 1

\* C8: the counters compiled by a completed execution, and those of the
\* AnalysisRun row built from them, are the numbers of MarketFinding rows
\* and of Opportunity rows the execution inserted.
C8_CountersMatchInserts ==
    \A r \in RunIds :
        /\ (runpc[r] \in {"notify", "done"} /\ report[r].status = "completed") =>
               /\ report[r].summary.findings_count
                      = Len(RowsOf("market_findings", r))
               /\ report[r].summary.opportunities_count
                      = Len(RowsOf("opportunities", r))
        /\ \A row \in Range(RowsOf("analysis_runs", r)) :
               /\ row.findings_count = Len(RowsOf("market_findings", r))
               /\ row.opportunities_identified = Len(RowsOf("opportunities", r))

\* C9: alert evaluation yields, in order, exactly one competitor alert for
\* every CompetitorUpdate the execution created with impact high or
\* critical, titled with its company and carrying its impact level, and no
\* competitor alert for any other update.
C9_AlertPerCriticalUpdate ==
    \A r \in RunIds :
        alerts[r] # NotEvaluated =>
            LET hits == SelectSeq(RowsOf("competitor_updates", r),
                            LAMBDA u : u.impact_level \in {"high", "critical"})
            IN SelectSeq(alerts[r],
                         LAMBDA a : a.source = "Competitive Intelligence")
               = [i \in DOMAIN hits |->
                     [title |-> <<"Critical Competitive Threat",
                                  hits[i].company_name>>,
                      impact_level |-> hits[i].impact_level,
                      source |-> "Competitive Intelligence"]]

\* C10: alert evaluation yields, in order, exactly one opportunity alert for
\* every Opportunity the execution created with score above 0.9 and priority
\* high, however many it created and at whatever place, and none for any
\* other opportunity (stated for a Synthesis stage that returned no error).
C10_AlertPerHighValueOpportunity ==
    \A r \in RunIds :
        (alerts[r] # NotEvaluated /\ ~Failed(results[r].synthesis)) =>
            LET hits == SelectSeq(RowsOf("opportunities", r),
                            LAMBDA o : o.score > 90 /\ o.priority = "high")
            IN SelectSeq(alerts[r],
                         LAMBDA a : a.source = "Strategic Analysis")
               = [i \in DOMAIN hits |->
                     [title |-> <<"High-Value Opportunity", hits[i].title>>,
                      impact_level |-> "high",
                      source |-> "Strategic Analysis"]]

CallsOf(r) == SelectSeq(outbox, LAMBDA call : call.run = r)

ReportedThreats(r) ==
    SelectSeq(Get(results[r].competitor, "critical_threats", <<>>),
              LAMBDA t : t.impact \in {"high", "critical"})

ReportedOpportunities(r) ==
    SelectSeq(Get(results[r].synthesis, "top_opportunities", <<>>),
              LAMBDA o : o.score > 90 /\ o.priority = "high")

\* C11: the two alert rules both fire, in a fixed order: the alert list is
\* one competitor alert for every qualifying threat of the report followed
\* by one opportunity alert for every qualifying opportunity of the report,
\* so one critical update and one opportunity of score 0.95 and priority high
\* give exactly 2 alerts, the competitor alert first.
C11_BothRulesInFixedOrder ==
    \A r \in RunIds :
        alerts[r] # NotEvaluated =>
            LET nT == Len(ReportedThreats(r))
                nO == Len(ReportedOpportunities(r))
            IN /\ Len(alerts[r]) = nT + nO
               /\ \A i \in 1..nT :
                      /\ alerts[r][i].source = "Competitive Intelligence"
                      /\ alerts[r][i].title[2] = ReportedThreats(r)[i].company
               /\ \A i \in 1..nO :
                      /\ alerts[r][nT + i].source = "Strategic Analysis"
                      /\ alerts[r][nT + i].title[2]
                             = ReportedOpportunities(r)[i].title

C11_Witness ==
    \E r \in RunIds :
        /\ alerts[r] # NotEvaluated
        /\ Len(ReportedThreats(r)) = 1
        /\ ReportedThreats(r)[1].impact = "critical"
        /\ Len(ReportedOpportunities(r)) = 1
        /\ ReportedOpportunities(r)[1].score = 95
        /\ Len(alerts[r]) = 2
        /\ alerts[r][1].source = "Competitive Intelligence"
        /\ alerts[r][2].source = "Strategic Analysis"

PipelineFailed(r) ==
    \/ report[r].status = "error"
    \/ \E s \in Stages : Failed(results[r][s])

AlertCallsOf(r) == SelectSeq(CallsOf(r), LAMBDA call : call.kind = "critical_alert")

\* C12: a failed execution (status error, or a stage that returned an
\* error) whose report holds no qualifying threat and no qualifying
\* opportunity has no alert: the alert list is empty or was never built, and
\* the Notifier received no critical alert for it.
C12_NoAlertFromFailure ==
    \A r \in RunIds :
        (PipelineFailed(r) /\ ReportedThreats(r) = <<>>
                           /\ ReportedOpportunities(r) = <<>>) =>
            /\ alerts[r] \in {NotEvaluated, <<>>}
            /\ AlertCallsOf(r) = <<>>

C12_Witness ==
    \E r \in RunIds :
        /\ runpc[r] = "done"
        /\ report[r].status = "error"
        /\ \A s \in FanOut : Failed(results[r][s])
        /\ ReportedThreats(r) = <<>> /\ ReportedOpportunities(r) = <<>>
        /\ AlertCallsOf(r) = <<>>

\* C13: an execution that ends with status error has had its daily digest
\* handed to the Notifier.
C13_DigestSentOnError ==
    \A r \in RunIds :
        (runpc[r] = "done" /\ report[r].status = "error") =>
            \E i \in DOMAIN outbox :
                outbox[i].run = r /\ outbox[i].kind = "daily_report"

\* C14: in a completed execution the AnalysisRun insert is attempted before
\* any alert is evaluated or any notification sent, and the alerts are
\* evaluated before the digest is handed to the Notifier.  The step that
\* leaves _store_analysis_run has attempted the insert (the table is as it
\* was or one row of this execution longer) and has neither alerts nor
\* Notifier calls yet; alerts and calls appear only in a later step; the
\* digest is the last call and carries the evaluated alerts.
C14_StoreThenNotify ==
    \A r \in RunIds :
        /\ (runpc[r] # "notify" /\ runpc'[r] = "notify") =>
               /\ runpc[r] = "store"
               /\ \/ store'.analysis_runs = store.analysis_runs
                  \/ /\ Len(store'.analysis_runs) = Len(store.analysis_runs) + 1
                     /\ store'.analysis_runs[Len(store'.analysis_runs)].run = r
               /\ alerts'[r] = NotEvaluated
               /\ SelectSeq(outbox', LAMBDA call : call.run = r) = <<>>
        /\ (\/ alerts'[r] # alerts[r]
            \/ SelectSeq(outbox', LAMBDA call : call.run = r) # CallsOf(r)) =>
               /\ runpc[r] = "notify"
               /\ report[r].status = "completed"
               /\ store' = store

C14_DigestAfterEvaluation ==
    \A r \in RunIds :
        CallsOf(r) # <<>> =>
            LET n == Len(CallsOf(r)) IN
            /\ alerts[r] # NotEvaluated
            /\ CallsOf(r)[n].kind = "daily_report"
            /\ Get(CallsOf(r)[n], "critical_alerts", <<>>) = alerts[r]
            /\ \A i \in 1..(n - 1) : CallsOf(r)[i].kind = "critical_alert"

C14_StepOrder == []C14_DigestAfterEvaluation /\ [][C14_StoreThenNotify]_vars

C14_Witness ==
    \E r \in RunIds :
        /\ runpc[r] = "done"
        /\ report[r].status = "completed"
        /\ Len(RowsOf("analysis_runs", r)) = 1
        /\ alerts[r] # NotEvaluated /\ Len(alerts[r]) >= 1
        /\ Len(CallsOf(r)) = Len(alerts[r]) + 1

FailedCallsOf(r) == SelectSeq(CallsOf(r), LAMBDA call : ~call.delivered)

\* C15: a delivery failure of the Notifier changes neither the store nor
\* the report: the step in which a send fails leaves every table, the
\* AnalysisRun rows included, and the compiled report as they were, and an
\* execution with a failed send still returns status completed.
C15_FailedSendChangesNothing ==
    \A r \in RunIds :
        (\E i \in DOMAIN outbox' :
            /\ i > Len(outbox)
            /\ outbox'[i].run = r
            /\ ~outbox'[i].delivered) =>
                /\ store' = store
                /\ report'[r] = report[r]

C15_StillCompleted ==
    \A r \in RunIds :
        FailedCallsOf(r) # <<>> =>
            /\ report[r].status = "completed"
            /\ \A row \in Range(RowsOf("analysis_runs", r)) :
                   row.status = "completed"

C15_DeliveryFailureNoRollback ==
    []C15_StillCompleted /\ [][C15_FailedSendChangesNothing]_vars

C15_Witness ==
    \E r \in RunIds :
        /\ runpc[r] = "done"
        /\ FailedCallsOf(r) # <<>>
        /\ \E i \in DOMAIN FailedCallsOf(r) :
               FailedCallsOf(r)[i].kind = "critical_alert"
        /\ Len(RowsOf("analysis_runs", r)) = 1
        /\ report[r].status = "completed"

TableOf == [market |-> "market_findings", competitor |-> "competitor_updates",
            trend |-> "trends", synthesis |-> "opportunities"]

CounterOf == [market |-> "findings_count", competitor |-> "updates_found",
              trend |-> "trends_identified", synthesis |-> "new_opportunities"]

Returned(r, s) == results[r][s] # Pending

BadAnswer(r, s) ==
    \E i \in DOMAIN heard[r][s].shapes : heard[r][s].shapes[i] # "object"

\* C16: a stage one of whose completion calls threw, or answered something
\* that is not the expected JSON object, returns a result with its error
\* field set, has persisted no item in this execution and counts none.
C16_BadAnswerGivesErrorAndNothingStored ==
    \A r \in RunIds : \A s \in Stages :
        (Returned(r, s) /\ BadAnswer(r, s)) =>
            /\ Failed(results[r][s])
            /\ Len(RowsOf(TableOf[s], r)) = 0
            /\ results[r][s][CounterOf[s]] = 0

Kept(r, s) ==
    SelectSeq(heard[r][s].items, LAMBDA it : it.valid /\ ~it.refused)

Dropped(r, s) == SelectSeq(heard[r][s].items, LAMBDA it : ~it.valid)

\* C17: an item that fails validation is dropped and nothing else: a stage
\* whose answers were all JSON objects returns no error, the rows it has
\* persisted are, in order, the rows of the valid items of its responses
\* (those the store accepted), wherever the invalid items stood, and its
\* counter is their number.
C17_InvalidItemsDroppedOnly ==
    \A r \in RunIds : \A s \in Stages :
        (Returned(r, s) /\ ~BadAnswer(r, s) /\ heard[r][s].shapes # <<>>) =>
            /\ ~Failed(results[r][s])
            /\ RowsOf(TableOf[s], r)
                   = [i \in DOMAIN Kept(r, s) |-> Kept(r, s)[i].row]
            /\ results[r][s][CounterOf[s]] = Len(Kept(r, s))

C17_Witness ==
    \E r \in RunIds :
        /\ Returned(r, "market")
        /\ Len(heard[r].market.items) = 3
        /\ heard[r].market.items[1].valid
        /\ ~heard[r].market.items[2].valid
        /\ heard[r].market.items[2].item.relevance_score = 140
        /\ heard[r].market.items[3].valid
        /\ Len(Kept(r, "market")) = 2
        /\ ~Failed(results[r].market)
        /\ results[r].market.findings_count = 2
        /\ Len(RowsOf("market_findings", r)) = 2

\* C18: the result a stage returns records a skip-count equal to the number
\* of response items it dropped for failing validation.
C18_SkipCountRecorded ==
    \A r \in RunIds : \A s \in Stages :
        (Returned(r, s) /\ ~Failed(results[r][s])) =>
            Get(results[r][s], "skipped", 0) = Len(Dropped(r, s))

ScoreField == [market |-> "relevance_score", trend |-> "momentum_score",
               synthesis |-> "score"]

OfferedInRange(r, s) ==
    SelectSeq(heard[r][s].items,
              LAMBDA it : /\ it.item[ScoreField[s]] >= ScoreMin
                          /\ it.item[ScoreField[s]] <= ScoreMax)

\* C19: every MarketFinding, Trend and Opportunity row in the store has its
\* score within [0.0, 1.0], and an item offered with a score outside the
\* range is left out, not clamped: the rows of an execution are no more than
\* the in-range items its stage was offered, and each carries the score of
\* one of them unchanged.
C19_ScoresInRangeNeverClamped ==
    \A s \in DOMAIN ScoreField :
        /\ \A row \in Range(store[TableOf[s]]) :
               /\ row[ScoreField[s]] >= ScoreMin
               /\ row[ScoreField[s]] <= ScoreMax
        /\ \A r \in RunIds :
               /\ Len(RowsOf(TableOf[s], r)) <= Len(OfferedInRange(r, s))
               /\ \A row \in Range(RowsOf(TableOf[s], r)) :
                      \E it \in Range(OfferedInRange(r, s)) :
                          row[ScoreField[s]] = it.item[ScoreField[s]]

C19_Witness ==
    \E r \in RunIds :
        /\ Returned(r, "synthesis")
        /\ Len(heard[r].synthesis.items) = 2
        /\ heard[r].synthesis.items[1].item.score = 140
        /\ heard[r].synthesis.items[2].item.score = 95
        /\ Len(RowsOf("opportunities", r)) = 1
        /\ RowsOf("opportunities", r)[1].score = 95

\* C20: the two completion sub-calls of the Synthesis stage are a strict
\* chain.  The synthesis call (a) is made at the barrier and nothing of (b)
\* exists when it returns; opportunity identification (b) starts only with
\* the output of (a) in hand, and the result the stage returns is built from
\* that output; once (b) has run, (a) is not running.
C20_SubCallsChained ==
    \A r \in RunIds :
        /\ (~strategic_analysis[r].called /\ strategic_analysis'[r].called) =>
               /\ runpc[r] = "gather" /\ runpc'[r] = "identify"
               /\ results'[r].synthesis = Pending
               /\ store'.opportunities = store.opportunities
        /\ (runpc[r] = "identify" /\ runpc'[r] # "identify") =>
               /\ strategic_analysis[r].called
               /\ ~strategic_analysis'[r].called
               /\ IF strategic_analysis[r].isdict
                  THEN /\ results'[r].synthesis.strategic_insights
                             = strategic_analysis[r].strategic_insights
                       /\ results'[r].synthesis.strategic_recommendations
                             = strategic_analysis[r].recommendations
                  ELSE Failed(results'[r].synthesis)

C20_OneSubCallAtATime ==
    \A r \in RunIds :
        /\ runpc[r] = "identify" <=> strategic_analysis[r].called
        /\ strategic_analysis[r].called => results[r].synthesis = Pending
        /\ Returned(r, "synthesis") => runpc[r] \in {"store", "notify", "done"}

C20_StrictChain == []C20_OneSubCallAtATime /\ [][C20_SubCallsChained]_vars

C20_Witness ==
    \E r \in RunIds :
        /\ runpc[r] = "store"
        /\ ~strategic_analysis[r].called
        /\ ~Failed(results[r].synthesis)
        /\ results[r].synthesis.strategic_insights = "insights"
        /\ results[r].synthesis.new_opportunities >= 1

WellFormed(rows) ==
    /\ DOMAIN rows = 1..Len(rows)
    /\ \A i \in DOMAIN rows : "run" \in DOMAIN rows[i]

\* C21: the four inputs of the synthesis call are never None: each is a
\* list of rows, possibly empty, also when the three fan-out stages all
\* returned errors and the reads of the store failed.
C21_SynthesisInputsWellFormed ==
    \A r \in RunIds :
        synInput[r].read =>
            /\ WellFormed(synInput[r].recent_findings)
            /\ WellFormed(synInput[r].competitor_updates)
            /\ WellFormed(synInput[r].current_trends)
            /\ WellFormed(synInput[r].existing_opportunities)

C21_Witness ==
    \E r \in RunIds :
        /\ synInput[r].read
        /\ \A s \in FanOut : Failed(results[r][s])
        /\ store.competitor_updates # <<>>
        /\ synInput[r].recent_findings = <<>>
        /\ synInput[r].competitor_updates = <<>>
        /\ synInput[r].current_trends = <<>>
        /\ synInput[r].existing_opportunities = <<>>

SearchFailed(r, s) == "error" \in Range(heard[r][s].searches)

CompletionAsked(r, s) ==
    \E i \in DOMAIN heard[r][s].shapes :
        heard[r][s].shapes[i] \in {"object", "array", "throws"}

\* C22: a failing search is absence of data and nothing more: a fan-out
\* stage whose search failed has still made its completion call, has no
\* error field unless a completion answer was bad, has persisted the valid
\* items of the answer, and the execution still ends completed.
C22_SearchFailureIsNoData ==
    \A r \in RunIds : \A s \in FanOut :
        (Returned(r, s) /\ SearchFailed(r, s)) =>
            /\ CompletionAsked(r, s)
            /\ ~BadAnswer(r, s) =>
                   /\ ~Failed(results[r][s])
                   /\ results[r][s][CounterOf[s]] = Len(Kept(r, s))
            /\ runpc[r] = "done" => report[r].status = "completed"

C22_Witness ==
    \E r \in RunIds :
        /\ runpc[r] = "done"
        /\ SearchFailed(r, "market")
        /\ CompletionAsked(r, "market")
        /\ ~Failed(results[r].market)
        /\ results[r].market.findings_count >= 1
        /\ report[r].status = "completed"
        /\ report[r].summary.findings_count >= 1

Refused(r, s) == SelectSeq(heard[r][s].items, LAMBDA it : it.refused)

\* C23: an item whose insert the store refused is dropped and not tried
\* again: the rows of the stage are exactly the rows of the items the store
\* accepted, those after the refused one included, no row carries the title
\* of a refused opportunity, the counter of the stage does not count it, and
\* the execution still ends completed.
C23_RefusedInsertDropped ==
    \A r \in RunIds : \A s \in Stages :
        (Returned(r, s) /\ Refused(r, s) # <<>>) =>
            /\ RowsOf(TableOf[s], r)
                   = [i \in DOMAIN Kept(r, s) |-> Kept(r, s)[i].row]
            /\ ~Failed(results[r][s]) =>
                   results[r][s][CounterOf[s]] = Len(Kept(r, s))
            /\ s = "synthesis" =>
                   \A it \in Range(Refused(r, s)) :
                       \A row \in Range(RowsOf("opportunities", r)) :
                           row.title # it.row.title
            /\ runpc[r] = "done" => report[r].status = "completed"

C23_Witness ==
    \E r \in RunIds :
        /\ runpc[r] = "done"
        /\ Len(heard[r].synthesis.items) = 2
        /\ heard[r].synthesis.items[1].refused
        /\ heard[r].synthesis.items[2].valid
        /\ ~heard[r].synthesis.items[2].refused
        /\ Len(RowsOf("opportunities", r)) = 1
        /\ RowsOf("opportunities", r)[1].title = OppTitles[2]
        /\ results[r].synthesis.new_opportunities = 1
        /\ report[r].status = "completed"

\* C24: an execution that has started eventually returns, also when an
\* outbound call of one of its fan-out stages never returns.
C24_RunEventuallyReturns ==
    \A r \in RunIds : (runpc[r] = "gather") ~> (runpc[r] = "done")

\* C25: a fan-out stage reads no record that a sibling stage of the same
\* execution has written: the rows the Trend stage reads from the store
\* hold no row inserted by its own execution.
C25_NoSiblingRowsRead ==
    \A r \in RunIds :
        histInput[r].read =>
            /\ \A row \in Range(histInput[r].findings) : row.run # r
            /\ \A row \in Range(histInput[r].opportunities) : row.run # r

---------------------------------------------------------------------------
WeeklyCalls == SelectSeq(outbox, LAMBDA call : call.kind = "weekly_summary")

C26_WeeklyStepOnlyReads ==
    weekly' # weekly =>
        /\ store' = store
        /\ runpc' = runpc
        /\ results' = results
        /\ heard' = heard
        /\ \/ outbox' = outbox
           \/ /\ Len(outbox') = Len(outbox) + 1
              /\ SubSeq(outbox', 1, Len(outbox)) = outbox
              /\ outbox'[Len(outbox')].kind = "weekly_summary"

C26_AtMostOneDigest == Len(WeeklyCalls) <= 1

\* C26: run_weekly_summary re-runs no stage and inserts no finding,
\* competitor update, opportunity, trend or AnalysisRun row: whether it
\* returns its summary or an error, the step that returns leaves the Result
\* Store, the stage results and the positions of the executions as they
\* were, and the Notifier has received at most one weekly digest.
C26_WeeklySummaryOnlyReads ==
    []C26_AtMostOneDigest /\ [][C26_WeeklyStepOnlyReads]_vars

C26_Witness ==
    /\ weekly # NotCalled
    /\ "summary" \in DOMAIN weekly
    /\ weekly.summary.market_findings > 0
    /\ store.analysis_runs # <<>>
    /\ Len(WeeklyCalls) = 1

---------------------------------------------------------------------------
C27_QuickStepPersistsNothing ==
    quick' # quick => store' = store /\ outbox' = outbox

C27_ResultCarriesTopic ==
    quick # NotCalled =>
        /\ "topic" \in DOMAIN quick
        /\ quick.topic \in Topics
        /\ "market_analysis" \in DOMAIN quick =>
               quick.market_analysis.topic = quick.topic

\* C27: run_quick_analysis(topic) bypasses persistence: for every topic and
\* every outcome of its two lookups the step that returns inserts no row
\* into the Result Store and hands nothing to the Notifier, and the value
\* it returns carries the topic.
C27_QuickAnalysisBypassesPersistence ==
    []C27_ResultCarriesTopic /\ [][C27_QuickStepPersistsNothing]_vars

C27_Witness ==
    /\ quick # NotCalled
    /\ quick.topic = "agents"
    /\ "market_analysis" \in DOMAIN quick
    /\ Failed(quick.market_analysis)
    /\ ~Failed(quick.trend_convergence)
    /\ quick.trend_convergence.trends_read > 0
    /\ outbox # <<>>

---------------------------------------------------------------------------
\* C28: the process of the `daily` command ends with code 0 when the status
\* of the execution is completed, and with another code when the status is
\* error.
C28_ExitCodeTellsStatus ==
    \A r \in RunIds :
        exit_code[r] # Running =>
            (exit_code[r] = ExitOk <=> report[r].status = "completed")

---------------------------------------------------------------------------
\* C29: in a completed execution with k alerts the Notifier has received
\* exactly k send_critical_alert calls, one per alert in list order, all of
\* them before the one send_daily_report call; the daily report is there
\* exactly once whether k is 0 or a critical-alert send failed, and it
\* carries the alert list only when k > 0.
C29_AlertsThenOneReport ==
    \A r \in RunIds :
        (runpc[r] = "done" /\ report[r].status = "completed") =>
            LET k == Len(alerts[r])
                calls == CallsOf(r)
            IN /\ alerts[r] # NotEvaluated
               /\ Len(calls) = k + 1
               /\ \A i \in 1..k :
                      /\ calls[i].kind = "critical_alert"
                      /\ calls[i].alert = alerts[r][i]
               /\ calls[k + 1].kind = "daily_report"
               /\ "critical_alerts" \in DOMAIN calls[k + 1] <=> k > 0
               /\ k > 0 => calls[k + 1].critical_alerts = alerts[r]

C29_Witness ==
    \E r \in RunIds :
        /\ runpc[r] = "done"
        /\ report[r].status = "completed"
        /\ Len(alerts[r]) >= 2
        /\ alerts[r][1] # alerts[r][2]
        /\ ~CallsOf(r)[1].delivered
        /\ CallsOf(r)[Len(CallsOf(r))].kind = "daily_report"
        /\ CallsOf(r)[Len(CallsOf(r))].delivered

---------------------------------------------------------------------------
\* The competitors the loop analyses, in the order of the configuration.
RealNames ==
    SelectSeq([i \in DOMAIN Competitors |-> strip(Competitors[i])],
              LAMBDA name : name # "")

\* Every completion of the stage either answered a JSON object or failed
\* inside the helper that asked for it.
FailuresCaught(r) ==
    /\ heard[r].competitor.shapes # <<>>
    /\ \A shape \in Range(heard[r].competitor.shapes) :
           shape \in {"object", "throws"}

====
